---- MODULE Spec2Model ----
(***************************************************************************)
(* Job-Search-Automation: the run orchestration pipeline                   *)
(* (scheduler.py: JobScheduler.run_once), the SQLite fingerprint store     *)
(* (storage/database.py: Database), the safe adapter wrapper and scorer    *)
(* (scrapers/base_scraper.py) and the two notification channels            *)
(* (notifier/email_notifier.py, notifier/telegram_notifier.py).            *)
(*                                                                         *)
(* Specifications: Spec (runs of run_once), SpecStore (the store's API),   *)
(* SpecId (_canonical_id), SpecScore (_score), SpecRace (two callers of    *)
(* is_new and save_job on one store), SpecSched (start_scheduler),         *)
(* SpecKeywords (the keyword commands and _effective_keywords), SpecPass   *)
(* (one pass of run_once's body for one adapter result).                   *)
(*                                                                         *)
(* Text is a sequence of one-character strings, so that strip() and        *)
(* lower() are computed and not assumed.                                   *)
(***************************************************************************)
EXTENDS Integers, Sequences, FiniteSets, TLC

\* ---------------------------------------------------------------- bounds
\* Longest tag list (config["search"]["tags"]) when _score is called directly.
MaxTags == 6
\* Runs started over the life of one store (rows of run_log).
MaxRuns == 2
\* Largest value of the UTC clock when the store's API is called directly.
MaxClock == 2
\* Longest list given to mark_notified when the store's API is called directly.
MaxBatch == 2

\* ------------------------------------------------------------------ text
\* str.lower() on one character.
LowerChar(c) ==
  CASE c = "T" -> "t"
    [] c = "U" -> "u"
    [] c = "C" -> "c"
    [] c = "V" -> "v"
    [] OTHER -> c

\* str.lower()
Lower(s) == [i \in 1..Len(s) |-> LowerChar(s[i])]

\* Characters str.strip() removes.
IsSpace(c) == c = " "

RECURSIVE LStrip(_)
LStrip(s) ==
  IF s = <<>> THEN <<>>
  ELSE IF IsSpace(Head(s)) THEN LStrip(Tail(s)) ELSE s

RECURSIVE RStrip(_)
RStrip(s) ==
  IF s = <<>> THEN <<>>
  ELSE IF IsSpace(s[Len(s)]) THEN RStrip(SubSeq(s, 1, Len(s) - 1)) ELSE s

\* str.lstrip() in place of str.strip(): trailing whitespace is kept.
StripLeftOnly(s) == LStrip(s)

\* str.strip()
Strip(s) == RStrip(LStrip(s))

\* needle in hay (Python substring test; "" is in every string).
Contains(hay, needle) ==
  \E i \in 1..(Len(hay) - Len(needle) + 1) :
    SubSeq(hay, i, i + Len(needle) - 1) = needle

RECURSIVE SplitFrom(_, _)
\* str.split() with no argument: the maximal runs of non-space characters.
\* cur is the token being read.
SplitFrom(s, cur) ==
  IF s = <<>> THEN (IF cur = <<>> THEN <<>> ELSE <<cur>>)
  ELSE IF IsSpace(Head(s))
       THEN (IF cur = <<>> THEN <<>> ELSE <<cur>>) \o SplitFrom(Tail(s), <<>>)
       ELSE SplitFrom(Tail(s), Append(cur, Head(s)))

Split(s) == SplitFrom(s, <<>>)

\* hashlib.sha256(raw).hexdigest(): modelled as collision-free, the digest
\* of a string stands for the string.
Sha256(raw) == raw

\* The "::" separator of the pre-hash string.
Sep == <<":", ":">>

\* database._canonical_id
CanonicalId(url, title, company) ==
  Sha256(Lower(Strip(url)) \o Sep \o Lower(Strip(title)) \o Sep \o Lower(Strip(company)))

\* The id of a job dict (save_job and mark_notified read url, title, company).
JobId(j) == CanonicalId(j.url, j.title, j.company)

\* ---------------------------------------------------------------- config
\* config["scrapers"]["enabled"], config["search"]["keywords"],
\* config["search"]["locations"], config["search"]["tags"]: one adapter, one
\* keyword written twice and a blank one, two locations.
ConfigScrapers == <<"indeed">>
ConfigKeywords == << <<"t", " ">>, <<" ">>, <<"t">> >>
ConfigLocations == << <<"R">>, <<"N">> >>
ConfigTags == << <<"c">>, <<"v">> >>

\* ---------------------------------------------------------------- scoring
RECURSIVE SumWords(_, _)
\* +5 for every keyword token found in the title haystack.
SumWords(words, hay) ==
  IF words = <<>> THEN 0
  ELSE (IF Contains(hay, Head(words)) THEN 5 ELSE 0) + SumWords(Tail(words), hay)

RECURSIVE SumTagsBoth(_, _, _)
\* "if" in place of "elif": a tag in the title haystack and in the description
\* adds 10 and 3.
SumTagsBoth(tags, hayTitle, hayBody) ==
  IF tags = <<>> THEN 0
  ELSE (IF Contains(hayTitle, Lower(Head(tags))) THEN 10 ELSE 0)
       + (IF Contains(hayBody, Lower(Head(tags))) THEN 3 ELSE 0)
       + SumTagsBoth(Tail(tags), hayTitle, hayBody)

RECURSIVE SumTags(_, _, _)
\* +10 for a tag in the title haystack, else +3 for a tag in the description.
SumTags(tags, hayTitle, hayBody) ==
  IF tags = <<>> THEN 0
  ELSE (IF Contains(hayTitle, Lower(Head(tags))) THEN 10
        ELSE IF Contains(hayBody, Lower(Head(tags))) THEN 3 ELSE 0)
       + SumTags(Tail(tags), hayTitle, hayBody)

\* "return score" in place of "return min(score, 100.0)".
MinFirst(a, b) == a

Min(a, b) == IF a <= b THEN a ELSE b

\* BaseScraper._score, lines 216-235: the local score before the clamp, for an
\* adapter whose self.tags is tags.
ScoreSum(job, keyword, tags) ==
  LET haystack_title == Lower(job.title \o <<" ">> \o job.company)
      haystack_body  == Lower(job.description)
      kw_lower       == Lower(keyword)
  IN (IF Contains(haystack_title, kw_lower) THEN 40 ELSE 0)
     + SumWords(Split(kw_lower), haystack_title)
     + SumTags(tags, haystack_title, haystack_body)

\* BaseScraper._score, line 237: return min(score, 100.0)
ScoreWith(job, keyword, tags) == Min(ScoreSum(job, keyword, tags), 100)

\* BaseScraper._score of an adapter built from the config.
Score(job, keyword) == ScoreWith(job, keyword, ConfigTags)

\* ------------------------------------------------------------- candidates
\* What search() of an adapter can return: Job dataclasses with source and
\* score still at their defaults.  RawA and RawA2 are one posting seen with
\* different letter case and surrounding whitespace; RawB is another posting.
RawA  == [title |-> <<"T">>, company |-> <<"c">>, url |-> <<"u">>,
          description |-> <<>>, source |-> "", score |-> 0]
RawA2 == [title |-> <<"t", " ">>, company |-> <<"C">>, url |-> <<" ", "U">>,
          description |-> <<"v">>, source |-> "", score |-> 0]
RawB  == [title |-> <<"t">>, company |-> <<"c">>, url |-> <<"v">>,
          description |-> <<"c">>, source |-> "", score |-> 0]
RawJobs == {RawA, RawA2, RawB}

\* Python's None, a value that is no text.
None == <<"None">>

\* A posting whose description an adapter left None.
RawNone == [title |-> <<"t">>, company |-> <<"c">>, url |-> <<"w">>,
            description |-> None, source |-> "", score |-> 0]

\* _score(job, keyword) raises: job.description.lower() on None.
ScoreRaises(job) == job.description = None

\* The lists search() returns here: nothing, one posting, two postings of
\* which one is the first posting in another spelling, and a posting followed
\* by one that _score raises on.
SearchResults == {<<>>, <<RawA>>, <<RawA2, RawB>>, <<RawB, RawNone>>}


\* ------------------------------------------------------------------ state
VARIABLES
  jobs,              \* table jobs: a set of rows (the PRIMARY KEY is not assumed)
  keywords,          \* table keywords: a set of [keyword, added]
  run_log,           \* table run_log: a sequence of rows, the index is the id
  clock,             \* the UTC clock datetime.utcnow() reads
  email_creds,       \* EmailNotifier.sender and .password are both set
  telegram_enabled,  \* TelegramNotifier.enabled
  telegram_creds,    \* TelegramNotifier.token and .chat_id are both set
  pc,                \* position of run_once; "hung": blocked in a search() call
                     \* that does not return
  dry_run,           \* run_once's argument
  run_id,            \* run_once: run_id
  triples,           \* run_once: the (scraper, keyword, location) passes, in loop order
  triple,            \* run_once: index of the next pass
  pending,           \* run_once: the rest of `jobs` of the current pass
  new_count,         \* run_once: new_count
  unnotified,        \* run_once: unnotified
  ok,                \* run_once: ok
  result,            \* how the last run_once call ended: "none" (none ended since the
                     \* last start), "returned", or what raised: "store_error" (a
                     \* read of the store), "write_error" (a write of the store),
                     \* "export_error", "adapter_error", "interrupted" (Ctrl+C)
  last,              \* the last direct call of the store's API: [op, arg, ret, wrote]
  inserted,          \* rows the current run inserted into jobs
  notified_at_start, \* ids with notified = 1 when the current run started
  all_failed,        \* every safe_search of the current run returned []
  run_sent,          \* <<channel, id>> delivered by the current run
  delivered,         \* <<channel, id>> delivered at least once, ever
  redelivered,       \* <<channel, id>> delivered at least twice, ever
  tally,             \* per id safe_search returned in the current run: [seen: times
                     \* returned, counted: times added to new_count, failed: a
                     \* save_job of it failed]
  race,              \* two callers of is_new and save_job on one store, per caller:
                     \* [pc, job, fresh: what is_new returned, raced: the other
                     \* caller was between its is_new and its save_job then,
                     \* failed: its save_job failed]
  sched              \* start_scheduler: [state, due: a fire time is reached and not
                     \* processed, ticks: intervals elapsed, runs: the positions of
                     \* the run_once calls in the executor's threads, started,
                     \* skipped, cleaned: cleanup() was called]

store_vars == <<jobs, keywords, run_log, clock>>
config_vars == <<email_creds, telegram_enabled, telegram_creds>>
run_vars == <<pc, dry_run, run_id, triples, triple, pending, new_count, unnotified,
              ok, result>>
ghost_vars == <<inserted, notified_at_start, all_failed, run_sent, delivered, redelivered,
                tally>>
side_vars == <<race, sched>>
vars == <<store_vars, config_vars, run_vars, ghost_vars, last, side_vars>>

\* datetime.utcnow() inside a run: the clock is advanced when a run starts,
\* and every read of the run gives that value (rows written by one run tie on
\* their timestamp, rows of different runs do not).
Now == clock

\* datetime.utcnow() in a direct call of the store's API: not earlier than the
\* last read, possibly equal to it.
Ticks == {t \in {clock, clock + 1} : t <= MaxClock}

\* ------------------------------------------------------------- timestamps
\* The clock counts half seconds.  datetime.isoformat() of the instant n, from
\* the seconds on (the date, hour and minute before them are the same text
\* for all instants here): two digits, and ".500000" only when the
\* microsecond part is not 0.
Digits == <<"0", "1", "2", "3", "4", "5", "6", "7", "8", "9">>

IsoFormat(n) ==
  <<Digits[((n \div 2) \div 10) + 1], Digits[((n \div 2) % 10) + 1]>>
  \o (IF n % 2 = 0 THEN <<>> ELSE <<".", "5", "0", "0", "0", "0", "0">>)

\* The byte of a character of a timestamp.
CharCode(c) ==
  IF c = "." THEN 46 ELSE 47 + (CHOOSE k \in 1..Len(Digits) : Digits[k] = c)

RECURSIVE TextLess(_, _)
\* a < b for TEXT values in SQLite (BINARY collation: bytewise, a proper
\* prefix first).
TextLess(a, b) ==
  IF b = <<>> THEN FALSE
  ELSE IF a = <<>> THEN TRUE
  ELSE IF Head(a) = Head(b) THEN TextLess(Tail(a), Tail(b))
  ELSE CharCode(Head(a)) < CharCode(Head(b))

\* ------------------------------------------------------------------ store
Ids(tbl) == {r.id : r \in tbl}
NotifiedIds(tbl) == {r.id : r \in {x \in tbl : x.notified}}
UnnotifiedRows(tbl) == {r \in tbl : ~r.notified}

\* run_once without its is_new test: every returned job is saved and counted.
IsNewAlways(tbl, url, title, company) == TRUE

\* Database.is_new: SELECT 1 FROM jobs WHERE id = ?
IsNew(tbl, url, title, company) ==
  ~\E r \in tbl : r.id = CanonicalId(url, title, company)

\* The row save_job writes for a job dict at time now.
JobRow(job, now) ==
  [id |-> JobId(job), title |-> job.title, company |-> job.company, url |-> job.url,
   source |-> job.source, description |-> job.description, score |-> job.score,
   discovered |-> now, notified |-> FALSE]

\* INSERT OR REPLACE in place of INSERT OR IGNORE: the later row wins.
InsertOrReplace(tbl, row) == {r \in tbl : r.id # row.id} \cup {row}

\* INSERT in place of INSERT OR IGNORE, on a table without its PRIMARY KEY.
InsertAlways(tbl, row) == tbl \cup {row}

\* INSERT OR IGNORE INTO jobs: a row whose id is present is left as it is.
InsertOrIgnore(tbl, row) ==
  IF \E r \in tbl : r.id = row.id THEN tbl ELSE tbl \cup {row}

\* Database.save_job: the table afterwards.  fails: the connection or the
\* statement raised; the transaction is rolled back.
SaveJob(tbl, job, now, fails) ==
  IF fails THEN tbl ELSE InsertOrIgnore(tbl, JobRow(job, now))

\* Database.save_job: the value returned.  True unless an exception was caught.
SaveJobReturn(tbl, job, fails) == ~fails

\* UPDATE jobs SET notified = 1 without its WHERE clause.
MarkNotifiedAll(tbl, js) ==
  IF js = <<>> THEN tbl ELSE {[r EXCEPT !.notified = TRUE] : r \in tbl}

\* SET notified = 1 - notified in place of SET notified = 1.
MarkNotifiedToggling(tbl, js) ==
  LET ids == {JobId(js[i]) : i \in 1..Len(js)}
  IN {IF r.id \in ids THEN [r EXCEPT !.notified = ~r.notified] ELSE r : r \in tbl}

\* Database.mark_notified: UPDATE jobs SET notified = 1 WHERE id = ? for every
\* given job, in one transaction.
MarkNotified(tbl, js) ==
  LET ids == {JobId(js[i]) : i \in 1..Len(js)}
  IN {IF r.id \in ids THEN [r EXCEPT !.notified = TRUE] ELSE r : r \in tbl}

\* s lists every element of S once.
IsListOf(s, S) == Len(s) = Cardinality(S) /\ {s[i] : i \in 1..Len(s)} = S

\* get_unnotified_jobs restricted to the rows of the latest discovery time.
GetUnnotifiedLatest(tbl) ==
  LET S == {r \in UnnotifiedRows(tbl) : \A x \in tbl : x.discovered <= r.discovered}
  IN {s \in [1..Cardinality(S) -> S] : IsListOf(s, S)}

\* ORDER BY discovered (ascending) in place of ORDER BY discovered DESC.
GetUnnotifiedAscending(tbl) ==
  LET S == UnnotifiedRows(tbl)
  IN {s \in [1..Cardinality(S) -> S] :
        /\ IsListOf(s, S)
        /\ \A i \in 1..(Len(s) - 1) :
             ~TextLess(IsoFormat(s[i + 1].discovered), IsoFormat(s[i].discovered))}

\* Database.get_unnotified_jobs: SELECT * FROM jobs WHERE notified = 0 ORDER BY
\* discovered DESC.  SQL leaves the order of rows with equal discovered open, so
\* this is the set of lists the query can return.
GetUnnotifiedJobs(tbl) ==
  LET S == UnnotifiedRows(tbl)
  IN {s \in [1..Cardinality(S) -> S] :
        /\ IsListOf(s, S)
        /\ \A i \in 1..(Len(s) - 1) :
             ~TextLess(IsoFormat(s[i].discovered), IsoFormat(s[i + 1].discovered))}

\* Database.total_jobs
TotalJobs(tbl) == Cardinality(tbl)

\* Database.list_keywords: SELECT keyword FROM keywords ORDER BY added: the
\* keyword column of the rows in an order the query can return them in.
ListKeywords(tbl) ==
  {[i \in 1..Len(s) |-> s[i].keyword] :
     s \in {x \in [1..Cardinality(tbl) -> tbl] :
              /\ IsListOf(x, tbl)
              /\ \A i \in 1..(Len(x) - 1) : x[i].added <= x[i + 1].added}}

\* INSERT in place of INSERT OR IGNORE, on a table without its PRIMARY KEY.
InsertKeywordAlways(tbl, row) == tbl \cup {row}

\* INSERT OR IGNORE INTO keywords: a row whose keyword is present is left as
\* it is.
InsertOrIgnoreKeyword(tbl, row) ==
  IF \E r \in tbl : r.keyword = row.keyword THEN tbl ELSE tbl \cup {row}

\* Database.add_keyword: the table afterwards.  fails: the connection or the
\* statement raised (caught, False returned).
AddKeyword(tbl, keyword, now, fails) ==
  IF fails THEN tbl
  ELSE InsertOrIgnoreKeyword(tbl, [keyword |-> Strip(keyword), added |-> now])

\* Database.remove_keyword: DELETE FROM keywords WHERE keyword = ?
RemoveKeyword(tbl, keyword, fails) ==
  IF fails THEN tbl ELSE {r \in tbl : r.keyword # Strip(keyword)}

\* Database.start_run: the row inserted; finished_at NULL is -1.
RunRow(now) == [started_at |-> now, finished_at |-> -1, new_jobs |-> 0, status |-> "running"]

\* Database.finish_run: UPDATE run_log SET finished_at, new_jobs, status WHERE id.
FinishRun(log, id, n, status, now) ==
  [i \in 1..Len(log) |->
     IF i = id THEN [log[i] EXCEPT !.finished_at = now, !.new_jobs = n, !.status = status]
     ELSE log[i]]


\* --------------------------------------------------------------- adapters
\* safe_search without its body: an exception of search() leaves it, and the
\* jobs are returned as search() made them.
SafeSearchBare(raw, raises, source_name, keyword) ==
  IF raises THEN [raised |-> TRUE, found |-> <<>>]
  ELSE [raised |-> FALSE, found |-> raw]

\* safe_search without its try/except: what search() raises leaves it.
SafeSearchUnguarded(raw, raises, source_name, keyword) ==
  IF raises \/ \E i \in 1..Len(raw) : ScoreRaises(raw[i])
  THEN [raised |-> TRUE, found |-> <<>>]
  ELSE [raised |-> FALSE,
        found |-> [i \in 1..Len(raw) |->
                     [raw[i] EXCEPT !.source = source_name,
                                    !.score = Score(raw[i], keyword)]]]

\* safe_search with its try/except inside the loop: the jobs tagged before
\* _score raises are returned.
SafeSearchPartial(raw, raises, source_name, keyword) ==
  IF raises THEN [raised |-> FALSE, found |-> <<>>]
  ELSE LET bad == {i \in 1..Len(raw) : ScoreRaises(raw[i])}
           n   == IF bad = {} THEN Len(raw)
                  ELSE (CHOOSE i \in bad : \A k \in bad : i <= k) - 1
       IN [raised |-> FALSE,
           found |-> [i \in 1..n |->
                        [raw[i] EXCEPT !.source = source_name,
                                       !.score = Score(raw[i], keyword)]]]

\* BaseScraper.safe_search: [raised: an exception leaves safe_search, found: the
\* list returned].  search() raised, or _score raised on one of the jobs, and
\* the except clause returns []; or every job search() returned gets the
\* adapter's SOURCE_NAME and its score for the keyword of the pass.
SafeSearch(raw, raises, source_name, keyword) ==
  IF raises \/ \E i \in 1..Len(raw) : ScoreRaises(raw[i])
  THEN [raised |-> FALSE, found |-> <<>>]
  ELSE [raised |-> FALSE,
        found |-> [i \in 1..Len(raw) |->
                     [raw[i] EXCEPT !.source = source_name,
                                    !.score = Score(raw[i], keyword)]]]

\* -------------------------------------------------------------- notifiers
\* for job in jobs[:10]
TelegramBatch == 10

IdsOf(js) == {JobId(js[i]) : i \in 1..Len(js)}

\* EmailNotifier.send: [ok: the value returned, sent: the listings delivered].
\* smtp_ok: the SMTP session went through.
EmailSend(js, dry, send_empty, creds, smtp_ok) ==
  IF js = <<>> /\ ~send_empty THEN [ok |-> TRUE, sent |-> {}]
  ELSE IF dry THEN [ok |-> TRUE, sent |-> {}]
  ELSE IF ~creds THEN [ok |-> FALSE, sent |-> {}]
  ELSE IF smtp_ok THEN [ok |-> TRUE, sent |-> IdsOf(js)]
  ELSE [ok |-> FALSE, sent |-> {}]

\* TelegramNotifier.send: the listings delivered.  accepted: the positions of
\* jobs[:10] whose sendMessage post went through.
TelegramSend(js, enabled, creds, accepted) ==
  IF ~enabled THEN {}
  ELSE IF ~creds THEN {}
  ELSE IF js = <<>> THEN {}
  ELSE {JobId(js[i]) : i \in {k \in 1..Min(Len(js), TelegramBatch) : k \in accepted}}

\* ------------------------------------------------------------ orchestrator
\* JobScheduler._effective_keywords: {k.strip() for k in yaml_kw + db_kw if k.strip()}
EffectiveKeywords(yaml_kw, db_kw) ==
  LET all == yaml_kw \o db_kw
  IN {Strip(all[i]) : i \in {k \in 1..Len(all) : Strip(all[k]) # <<>>}}

\* list(set): the lists holding every element of S once, in any order.
Orders(S) == {s \in [1..Cardinality(S) -> S] : IsListOf(s, S)}

\* The passes of the three nested loops of run_once, in loop order.
TriplesOf(scrapers, kws, locs) ==
  LET K == Len(kws)
      L == Len(locs)
  IN [n \in 1..(Len(scrapers) * K * L) |->
        [scraper  |-> scrapers[((n - 1) \div (K * L)) + 1],
         keyword  |-> kws[(((n - 1) \div L) % K) + 1],
         location |-> locs[((n - 1) % L) + 1]]]

\* run_once without its mark_notified call.
ShouldMarkNever(is_ok, dry) == FALSE

\* "if ok" in place of "if ok and not dry_run".
ShouldMarkIgnoringDryRun(is_ok, dry) == is_ok

\* "if not dry_run" in place of "if ok and not dry_run".
ShouldMarkIgnoringOk(is_ok, dry) == ~dry

\* run_once: if ok and not dry_run
ShouldMark(is_ok, dry) == is_ok /\ ~dry

\* The notify step inside the location loop: reached after any pass.
LoopsDoneAfterPass(rest, next, passes) == rest = <<>> /\ next > 1

\* run_once, lines 104-116: the three nested loops are exhausted (the jobs of
\* the last pass are worked through and no pass is left).
LoopsDone(rest, next, passes) == rest = <<>> /\ next > Len(passes)

\* An exception leaves run_once: nothing after the raising statement runs,
\* and the frame is gone with its locals (new_count, unnotified, ok) and
\* with the bookkeeping kept about the run in progress.
Abort(why) ==
  /\ pc' = "idle"
  /\ result' = why
  /\ triples' = <<>>
  /\ triple' = 1
  /\ pending' = <<>>
  /\ new_count' = 0
  /\ unnotified' = <<>>
  /\ ok' = FALSE
  /\ inserted' = 0
  /\ all_failed' = TRUE
  /\ run_sent' = {}
  /\ tally' = <<>>

\* The function f with f[k] = v.
Put(f, k, v) == [x \in (DOMAIN f) \cup {k} |-> IF x = k THEN v ELSE f[x]]

\* The bookkeeping of the current run for the identity id.
TallyOf(t, id) ==
  IF id \in DOMAIN t THEN t[id] ELSE [seen |-> 0, counted |-> 0, failed |-> FALSE]

\* The channels receive the listings S = {<<channel, id>>}.
Deliver(S) ==
  /\ run_sent' = run_sent \cup S
  /\ redelivered' = redelivered \cup (S \cap delivered)
  /\ delivered' = delivered \cup S

\* Two callers that share one store.
Workers == {1, 2}

\* The environment of the notifiers, read once in their constructors.
Configs ==
  {c \in [email_creds : BOOLEAN, telegram_enabled : BOOLEAN, telegram_creds : BOOLEAN] :
     c.telegram_creds => c.telegram_enabled}

Init ==
  /\ jobs = {}
  /\ keywords = {}
  /\ run_log = <<>>
  /\ clock = 0
  /\ \E c \in Configs :
       /\ email_creds = c.email_creds
       /\ telegram_enabled = c.telegram_enabled
       /\ telegram_creds = c.telegram_creds
  /\ pc = "idle"
  /\ dry_run = FALSE
  /\ run_id = 0
  /\ triples = <<>>
  /\ triple = 1
  /\ pending = <<>>
  /\ new_count = 0
  /\ unnotified = <<>>
  /\ ok = FALSE
  /\ result = "none"
  /\ last = [op |-> "none", arg |-> <<>>, ret |-> FALSE, wrote |-> FALSE]
  /\ inserted = 0
  /\ notified_at_start = {}
  /\ all_failed = TRUE
  /\ run_sent = {}
  /\ delivered = {}
  /\ redelivered = {}
  /\ tally = <<>>
  /\ race = [w \in Workers |->
               [pc |-> "off", job |-> <<>>, fresh |-> FALSE, raced |-> FALSE,
                failed |-> FALSE]]
  /\ sched = [state |-> "off", due |-> FALSE, ticks |-> 0, runs |-> <<>>, started |-> 0,
              skipped |-> 0, cleaned |-> FALSE]

\* A call of run_once begins: its locals and the per-run bookkeeping are fresh.
Enter(d) ==
  /\ dry_run' = d
  /\ new_count' = 0
  /\ unnotified' = <<>>
  /\ ok' = FALSE
  /\ inserted' = 0
  /\ notified_at_start' = NotifiedIds(jobs)
  /\ all_failed' = TRUE
  /\ run_sent' = {}
  /\ tally' = <<>>

\* run_once, lines 95-102: start_run, _effective_keywords, new_count = 0.
StartRun ==
  /\ pc = "idle"
  /\ Len(run_log) < MaxRuns
  /\ \E d \in BOOLEAN : Enter(d)
  /\ clock' = clock + 1
  /\ run_log' = Append(run_log, RunRow(clock'))
  /\ run_id' = Len(run_log')
  /\ \E db_kw \in ListKeywords(keywords) :
       \E kws \in Orders(EffectiveKeywords(ConfigKeywords, db_kw)) :
         triples' = TriplesOf(ConfigScrapers, kws, ConfigLocations)
  /\ triple' = 1
  /\ pending' = <<>>
  /\ pc' = "scrape"
  /\ result' = "none"
  /\ UNCHANGED <<jobs, keywords, config_vars, delivered, redelivered, last, side_vars>>

\* start_run raises (its connection or its INSERT fails): no row, no run id.
StartRunRaises ==
  /\ pc = "idle"
  /\ Len(run_log) < MaxRuns
  /\ \E d \in BOOLEAN : Enter(d)
  /\ run_id' = 0
  /\ Abort("write_error")
  /\ UNCHANGED <<store_vars, config_vars, delivered, redelivered, last, side_vars>>

\* list_keywords raises (a read) after start_run wrote its row.
ListKeywordsRaises ==
  /\ pc = "idle"
  /\ Len(run_log) < MaxRuns
  /\ \E d \in BOOLEAN : Enter(d)
  /\ clock' = clock + 1
  /\ run_log' = Append(run_log, RunRow(clock'))
  /\ run_id' = Len(run_log')
  /\ Abort("store_error")
  /\ UNCHANGED <<jobs, keywords, config_vars, delivered, redelivered, last, side_vars>>

\* run_once, line 111: the next pass calls safe_search.
Search ==
  /\ pc = "scrape"
  /\ pending = <<>>
  /\ triple <= Len(triples)
  /\ \E raw \in SearchResults, raises \in BOOLEAN :
       LET r == SafeSearch(raw, raises, triples[triple].scraper, triples[triple].keyword)
       IN IF r.raised
          THEN Abort("adapter_error")
          ELSE /\ pending' = r.found
               /\ all_failed' = (all_failed /\ r.found = <<>>)
               /\ triple' = triple + 1
               /\ UNCHANGED <<pc, result, triples, new_count, unnotified, ok, inserted,
                              run_sent, tally>>
  /\ UNCHANGED <<store_vars, config_vars, dry_run, run_id, notified_at_start, delivered,
                 redelivered, last, side_vars>>

\* run_once, line 111: the search() call inside safe_search does not return.
\* safe_search and run_once set no timer and have no other thread, so run_once
\* stays in this call.
SearchHangs ==
  /\ pc = "scrape"
  /\ pending = <<>>
  /\ triple <= Len(triples)
  /\ pc' = "hung"
  /\ UNCHANGED <<store_vars, config_vars, dry_run, run_id, triples, triple, pending,
                 new_count, unnotified, ok, result, ghost_vars, last, side_vars>>

\* run_once, lines 113-116: one job of the pass: is_new, save_job, new_count += 1.
ProcessJob ==
  /\ pc = "scrape"
  /\ pending # <<>>
  /\ LET job == Head(pending)
         old == TallyOf(tally, JobId(job))
     IN IF IsNew(jobs, job.url, job.title, job.company)
        THEN \E fails \in BOOLEAN :
               /\ jobs' = SaveJob(jobs, job, Now, fails)
               /\ new_count' = new_count + 1
               /\ inserted' = inserted + (Cardinality(jobs') - Cardinality(jobs))
               /\ tally' = Put(tally, JobId(job),
                               [seen |-> old.seen + 1, counted |-> old.counted + 1,
                                failed |-> old.failed \/ fails])
        ELSE /\ tally' = Put(tally, JobId(job), [old EXCEPT !.seen = old.seen + 1])
             /\ UNCHANGED <<jobs, new_count, inserted>>
  /\ pending' = Tail(pending)
  /\ UNCHANGED <<keywords, run_log, clock, config_vars, pc, dry_run, run_id, triples,
                 triple, unnotified, ok, result, notified_at_start, all_failed, run_sent,
                 delivered, redelivered, last, side_vars>>

\* is_new raises (a read): the exception leaves run_once.
IsNewRaises ==
  /\ pc = "scrape"
  /\ pending # <<>>
  /\ Abort("store_error")
  /\ UNCHANGED <<store_vars, config_vars, dry_run, run_id, notified_at_start, delivered,
                 redelivered, last, side_vars>>

\* run_once, line 121: after the last pass, unnotified = get_unnotified_jobs().
FetchUnnotified ==
  /\ pc = "scrape"
  /\ LoopsDone(pending, triple, triples)
  /\ unnotified' \in GetUnnotifiedJobs(jobs)
  /\ pc' = "email"
  /\ UNCHANGED <<store_vars, config_vars, dry_run, run_id, triples, triple, pending,
                 new_count, ok, result, ghost_vars, last, side_vars>>

\* get_unnotified_jobs raises (a read).
FetchUnnotifiedRaises ==
  /\ pc = "scrape"
  /\ LoopsDone(pending, triple, triples)
  /\ Abort("store_error")
  /\ UNCHANGED <<store_vars, config_vars, dry_run, run_id, notified_at_start, delivered,
                 redelivered, last, side_vars>>

\* run_once, lines 122-123 and 128: email.send(unnotified, dry_run); its value
\* is kept in ok when unnotified is not empty.
SendEmail ==
  /\ pc = "email"
  /\ \E send_empty \in BOOLEAN, smtp_ok \in BOOLEAN :
       LET r == EmailSend(unnotified, dry_run, send_empty, email_creds, smtp_ok)
       IN /\ ok' = (IF unnotified # <<>> THEN r.ok ELSE ok)
          /\ Deliver({<<"email", i>> : i \in r.sent})
  /\ pc' = IF unnotified # <<>> THEN "telegram" ELSE "export"
  /\ UNCHANGED <<store_vars, config_vars, dry_run, run_id, triples, triple, pending,
                 new_count, unnotified, result, inserted, notified_at_start, all_failed,
                 tally, last, side_vars>>

\* run_once, line 124: telegram.send(unnotified).
SendTelegram ==
  /\ pc = "telegram"
  /\ \E accepted \in SUBSET (1..Len(unnotified)) :
       Deliver({<<"telegram", i>> :
                  i \in TelegramSend(unnotified, telegram_enabled, telegram_creds, accepted)})
  /\ pc' = "mark"
  /\ UNCHANGED <<store_vars, config_vars, dry_run, run_id, triples, triple, pending,
                 new_count, unnotified, ok, result, inserted, notified_at_start,
                 all_failed, tally, last, side_vars>>

\* run_once, lines 125-126: if ok and not dry_run: mark_notified(unnotified).
Mark ==
  /\ pc = "mark"
  /\ jobs' = IF ShouldMark(ok, dry_run) THEN MarkNotified(jobs, unnotified) ELSE jobs
  /\ pc' = "export"
  /\ UNCHANGED <<keywords, run_log, clock, config_vars, dry_run, run_id, triples, triple,
                 pending, new_count, unnotified, ok, result, ghost_vars, last, side_vars>>

\* mark_notified raises (it has no try/except): the transaction is rolled back.
MarkRaises ==
  /\ pc = "mark"
  /\ ShouldMark(ok, dry_run)
  /\ Abort("write_error")
  /\ UNCHANGED <<store_vars, config_vars, dry_run, run_id, notified_at_start, delivered,
                 redelivered, last, side_vars>>

\* run_once, lines 131-132: the CSV export, when enabled, changes nothing here.
ExportCsv ==
  /\ pc = "export"
  /\ pc' = "finish"
  /\ UNCHANGED <<store_vars, config_vars, dry_run, run_id, triples, triple, pending,
                 new_count, unnotified, ok, result, ghost_vars, last, side_vars>>

\* _export_csv raises: os.makedirs is outside its try.
ExportCsvRaises ==
  /\ pc = "export"
  /\ Abort("export_error")
  /\ UNCHANGED <<store_vars, config_vars, dry_run, run_id, notified_at_start, delivered,
                 redelivered, last, side_vars>>

\* run_once, lines 134-136: finish_run(run_id, new_count, "ok"), return new_count.
Finish ==
  /\ pc = "finish"
  /\ run_log' = FinishRun(run_log, run_id, new_count, "ok", Now)
  /\ pc' = "idle"
  /\ result' = "returned"
  /\ triples' = <<>>
  /\ triple' = 1
  /\ pending' = <<>>
  /\ UNCHANGED <<jobs, keywords, clock, config_vars, dry_run, run_id, new_count,
                 unnotified, ok, ghost_vars, last, side_vars>>

\* finish_run raises: the run's row is not updated.
FinishRaises ==
  /\ pc = "finish"
  /\ Abort("write_error")
  /\ UNCHANGED <<store_vars, config_vars, dry_run, run_id, notified_at_start, delivered,
                 redelivered, last, side_vars>>

\* total_jobs raises (line 135), after finish_run closed the row.
TotalJobsRaises ==
  /\ pc = "finish"
  /\ run_log' = FinishRun(run_log, run_id, new_count, "ok", Now)
  /\ Abort("store_error")
  /\ UNCHANGED <<jobs, keywords, clock, config_vars, dry_run, run_id, notified_at_start,
                 delivered, redelivered, last, side_vars>>

\* Ctrl+C while run_once runs in the main thread (main.py --run-now and
\* --dry-run): KeyboardInterrupt is raised at the statement being executed,
\* inside a search() call too.  It is no Exception, so neither safe_search nor
\* the store's handlers catch it, and run_once and main have no handler: it
\* leaves run_once.
KeyboardInterruptRaised ==
  /\ pc # "idle"
  /\ Abort("interrupted")
  /\ UNCHANGED <<store_vars, config_vars, dry_run, run_id, notified_at_start, delivered,
                 redelivered, last, side_vars>>

Next ==
  \/ StartRun
  \/ StartRunRaises
  \/ ListKeywordsRaises
  \/ Search
  \/ SearchHangs
  \/ ProcessJob
  \/ IsNewRaises
  \/ FetchUnnotified
  \/ FetchUnnotifiedRaises
  \/ SendEmail
  \/ SendTelegram
  \/ Mark
  \/ MarkRaises
  \/ ExportCsv
  \/ ExportCsvRaises
  \/ Finish
  \/ FinishRaises
  \/ TotalJobsRaises
  \/ KeyboardInterruptRaised

Spec == Init /\ [][Next]_vars


\* ------------------------------------------------- the store's API, called directly
\* Job dicts a caller can hand to save_job and mark_notified: the postings as
\* safe_search tags and scores them.
ApiJobs == {[j EXCEPT !.source = "indeed", !.score = Score(j, <<"t">>)] : j \in RawJobs}

\* The lists a caller can hand to mark_notified.
ApiJobLists == UNION {[1..k -> ApiJobs] : k \in 0..MaxBatch}

\* save_job(job) called on its own ("this is safe to call blindly").
ApiSaveJob ==
  /\ pc = "idle"
  /\ \E job \in ApiJobs, fails \in BOOLEAN, t \in Ticks :
       /\ clock' = t
       /\ jobs' = SaveJob(jobs, job, t, fails)
       /\ last' = [op |-> "save_job", arg |-> job,
                   ret |-> SaveJobReturn(jobs, job, fails), wrote |-> jobs' # jobs]
  /\ UNCHANGED <<keywords, run_log, config_vars, run_vars, ghost_vars, side_vars>>

\* mark_notified(jobs) called on its own.
ApiMarkNotified ==
  /\ pc = "idle"
  /\ \E js \in ApiJobLists :
       /\ jobs' = MarkNotified(jobs, js)
       /\ last' = [op |-> "mark_notified", arg |-> js, ret |-> TRUE, wrote |-> jobs' # jobs]
  /\ UNCHANGED <<keywords, run_log, clock, config_vars, run_vars, ghost_vars, side_vars>>

\* get_unnotified_jobs() called on its own.
ApiGetUnnotifiedJobs ==
  /\ pc = "idle"
  /\ \E l \in GetUnnotifiedJobs(jobs) :
       last' = [op |-> "get_unnotified_jobs", arg |-> <<>>, ret |-> l, wrote |-> FALSE]
  /\ UNCHANGED <<store_vars, config_vars, run_vars, ghost_vars, side_vars>>

NextStore ==
  \/ ApiSaveJob
  \/ ApiMarkNotified
  \/ ApiGetUnnotifiedJobs

\* A Database constructed on its own: no notifier reads its environment.
InitStore ==
  /\ Init
  /\ ~email_creds
  /\ ~telegram_enabled
  /\ ~telegram_creds

SpecStore == InitStore /\ [][NextStore]_vars

\* -------------------------------------------- _canonical_id, called directly
\* Values of one field: empty, one word in both letter cases and with leading
\* and trailing whitespace, another word, and a colon (the separator's
\* character).
IdFields == {<<>>, <<"u">>, <<"U">>, <<" ", "u">>, <<"u", " ">>, <<"v">>, <<":">>}

\* The (url, title, company) arguments of _canonical_id.
IdTriples == [url : IdFields, title : IdFields, company : IdFields]

\* _canonical_id called on two triples, to compare their identities.
CallCanonicalId ==
  /\ last.op = "none"
  /\ \E a \in IdTriples, b \in IdTriples :
       last' = [op |-> "_canonical_id", arg |-> <<a, b>>,
                ret |-> <<CanonicalId(a.url, a.title, a.company),
                          CanonicalId(b.url, b.title, b.company)>>,
                wrote |-> FALSE]
  /\ UNCHANGED <<store_vars, config_vars, run_vars, ghost_vars, side_vars>>

NextId == CallCanonicalId

SpecId == InitStore /\ [][NextId]_vars

\* --------------------------------------------------- _score, called directly
\* Keywords of a pass: one word, two words in mixed case, a word of no
\* posting's title, and the empty keyword.
ScoreKeywords == {<<"t">>, <<"T", " ", "c">>, <<"v">>, <<>>}

\* Tags: two that are in titles or companies, one that is in a description only.
ScoreTags == {<<"t">>, <<"C">>, <<"v">>}

\* The tag lists of a config, a tag possibly written more than once.
ScoreTagLists == UNION {[1..n -> ScoreTags] : n \in 0..MaxTags}

\* _score(job, keyword) of an adapter with the tag list tags.
CallScore ==
  /\ last.op = "none"
  /\ \E job \in RawJobs, keyword \in ScoreKeywords, tags \in ScoreTagLists :
       last' = [op |-> "_score", arg |-> [job |-> job, keyword |-> keyword, tags |-> tags],
                ret |-> ScoreWith(job, keyword, tags), wrote |-> FALSE]
  /\ UNCHANGED <<store_vars, config_vars, run_vars, ghost_vars, side_vars>>

NextScore == CallScore

SpecScore == InitStore /\ [][NextScore]_vars

\* ------------------------------------- two callers of is_new and save_job
\* run_once, lines 113-115, run by two callers on one store (two processes on
\* one database file): each statement of the store is one transaction.
\* A caller has got a job from its adapter.
RaceDiscover(w) ==
  /\ race[w].pc = "off"
  /\ \E job \in ApiJobs : race' = [race EXCEPT ![w].pc = "is_new", ![w].job = job]
  /\ UNCHANGED <<store_vars, config_vars, run_vars, ghost_vars, last, sched>>

\* if self.db.is_new(job.url, job.title, job.company)
RaceIsNew(w) ==
  /\ race[w].pc = "is_new"
  /\ LET fresh == IsNew(jobs, race[w].job.url, race[w].job.title, race[w].job.company)
     IN race' = [race EXCEPT
                   ![w].fresh = fresh,
                   ![w].pc = IF fresh THEN "save" ELSE "done",
                   ![w].raced = \E v \in Workers \ {w} :
                                  /\ race[v].pc = "save"
                                  /\ JobId(race[v].job) = JobId(race[w].job)]
  /\ UNCHANGED <<store_vars, config_vars, run_vars, ghost_vars, last, sched>>

\* self.db.save_job(job.to_dict())
RaceSave(w) ==
  /\ race[w].pc = "save"
  /\ \E fails \in BOOLEAN, t \in Ticks :
       /\ clock' = t
       /\ jobs' = SaveJob(jobs, race[w].job, t, fails)
       /\ race' = [race EXCEPT ![w].pc = "done", ![w].failed = fails]
  /\ UNCHANGED <<keywords, run_log, config_vars, run_vars, ghost_vars, last, sched>>

NextRace ==
  \E w \in Workers :
    \/ RaceDiscover(w)
    \/ RaceIsNew(w)
    \/ RaceSave(w)

SpecRace == InitStore /\ [][NextRace]_vars

\* ------------------------------------------------------------ start_scheduler
\* Interval ticks after the first fire time.
MaxTicks == 4

\* add_job(..., max_instances=1)
MaxInstances == 1

\* The executor takes every submission (no max_instances limit).
CanSubmitAlways(n) == TRUE

\* The executor's test in submit_job: fewer than max_instances instances of
\* the job are running.
CanSubmit(n) == n < MaxInstances

\* s without its i-th element.
Without(s, i) == SubSeq(s, 1, i - 1) \o SubSeq(s, i + 1, Len(s))

\* scheduler.start(): the job was added with next_run_time = utcnow(), so its
\* first fire time is reached at once.
StartScheduler ==
  /\ sched.state = "off"
  /\ sched' = [sched EXCEPT !.state = "running", !.due = TRUE]
  /\ UNCHANGED <<store_vars, config_vars, run_vars, ghost_vars, last, race>>

\* IntervalTrigger(hours=hours): the next fire time is reached.
IntervalElapses ==
  /\ sched.state = "running"
  /\ ~sched.due
  /\ sched.ticks < MaxTicks
  /\ sched' = [sched EXCEPT !.due = TRUE, !.ticks = sched.ticks + 1]
  /\ UNCHANGED <<store_vars, config_vars, run_vars, ghost_vars, last, race>>

\* The scheduler's loop processes the due job: run_once is submitted to the
\* executor's thread pool, or, with max_instances instances still running, the
\* execution is skipped with a warning; the next fire time is computed from
\* the trigger either way.
ProcessDue ==
  /\ sched.state = "running"
  /\ sched.due
  /\ sched' = IF CanSubmit(Len(sched.runs))
              THEN [sched EXCEPT !.due = FALSE, !.runs = Append(sched.runs, "scrape"),
                                 !.started = sched.started + 1]
              ELSE [sched EXCEPT !.due = FALSE, !.skipped = sched.skipped + 1]
  /\ UNCHANGED <<store_vars, config_vars, run_vars, ghost_vars, last, race>>

\* A run_once call in a pool thread leaves its scrape loop (the part that calls
\* the adapters) for its notify step.
RunNotifies(i) ==
  /\ sched.runs[i] = "scrape"
  /\ sched' = [sched EXCEPT !.runs[i] = "notify"]
  /\ UNCHANGED <<store_vars, config_vars, run_vars, ghost_vars, last, race>>

\* A run_once call in a pool thread returns or raises.
RunEnds(i) ==
  /\ sched' = [sched EXCEPT !.runs = Without(sched.runs, i)]
  /\ UNCHANGED <<store_vars, config_vars, run_vars, ghost_vars, last, race>>

\* KeyboardInterrupt in the main thread, which is blocked in scheduler.start():
\* the except clause logs, the finally clause calls cleanup().  Nothing shuts
\* the scheduler down or joins the pool thread, so a run_once call in
\* progress goes on in its thread.
Interrupt ==
  /\ sched.state = "running"
  /\ sched' = [sched EXCEPT !.state = "stopped", !.cleaned = TRUE]
  /\ UNCHANGED <<store_vars, config_vars, run_vars, ghost_vars, last, race>>

NextSched ==
  \/ StartScheduler
  \/ IntervalElapses
  \/ ProcessDue
  \/ \E i \in 1..Len(sched.runs) : RunNotifies(i)
  \/ \E i \in 1..Len(sched.runs) : RunEnds(i)
  \/ Interrupt

SpecSched == InitStore /\ [][NextSched]_vars

\* ------------------------------------------------ one pass, run on its own
RECURSIVE SaveNew(_, _, _, _, _)
\* run_once, lines 113-116, for the jobs js[i..] of a pass: is_new, save_job.
\* failing: the positions whose save_job fails.
SaveNew(tbl, js, i, now, failing) ==
  IF i > Len(js) THEN tbl
  ELSE SaveNew(IF IsNew(tbl, js[i].url, js[i].title, js[i].company)
               THEN SaveJob(tbl, js[i], now, i \in failing)
               ELSE tbl,
               js, i + 1, now, failing)

\* run_once, lines 111-116: one (scraper, keyword, location) pass: safe_search
\* and the loop over what it returned.
ApiPass ==
  /\ pc = "idle"
  /\ \E raw \in SearchResults, raises \in BOOLEAN, t \in Ticks :
       \E failing \in SUBSET (1..Len(raw)) :
         LET r == SafeSearch(raw, raises, ConfigScrapers[1], ConfigKeywords[3])
         IN /\ clock' = t
            /\ jobs' = SaveNew(jobs, r.found, 1, t, failing)
            /\ last' = [op |-> "pass", arg |-> [raw |-> raw, raises |-> raises],
                        ret |-> r.found, wrote |-> jobs' # jobs]
  /\ UNCHANGED <<keywords, run_log, config_vars, run_vars, ghost_vars, side_vars>>

NextPass == ApiPass

SpecPass == InitStore /\ [][NextPass]_vars

\* ------------------------------------------------- keywords, called directly
\* Keywords typed on the command line: a word, the word with trailing
\* whitespace, the word in the other letter case with whitespace around it,
\* and a blank.
KeywordInputs == {<<"t">>, <<"t", " ">>, <<" ", "T", " ">>, <<" ">>}

\* config["search"]["keywords"] of the configs tried.
YamlKeywordLists == {ConfigKeywords, <<>>, << <<"T">>, <<"v">> >>}

\* add_keyword(keyword) (main.py --add-keyword)
ApiAddKeyword ==
  /\ pc = "idle"
  /\ \E keyword \in KeywordInputs, fails \in BOOLEAN, t \in Ticks :
       /\ clock' = t
       /\ keywords' = AddKeyword(keywords, keyword, t, fails)
       /\ last' = [op |-> "add_keyword", arg |-> keyword, ret |-> ~fails,
                   wrote |-> keywords' # keywords]
  /\ UNCHANGED <<jobs, run_log, config_vars, run_vars, ghost_vars, side_vars>>

\* remove_keyword(keyword) (main.py --remove-keyword)
ApiRemoveKeyword ==
  /\ pc = "idle"
  /\ \E keyword \in KeywordInputs, fails \in BOOLEAN :
       /\ keywords' = RemoveKeyword(keywords, keyword, fails)
       /\ last' = [op |-> "remove_keyword", arg |-> keyword, ret |-> ~fails,
                   wrote |-> keywords' # keywords]
  /\ UNCHANGED <<jobs, run_log, clock, config_vars, run_vars, ghost_vars, side_vars>>

\* list_keywords()
ApiListKeywords ==
  /\ pc = "idle"
  /\ \E l \in ListKeywords(keywords) :
       last' = [op |-> "list_keywords", arg |-> <<>>, ret |-> l, wrote |-> FALSE]
  /\ UNCHANGED <<store_vars, config_vars, run_vars, ghost_vars, side_vars>>

\* _effective_keywords() of a scheduler built on a config: ret is the set whose
\* list(...) is returned.
ApiEffectiveKeywords ==
  /\ pc = "idle"
  /\ \E yaml_kw \in YamlKeywordLists, db_kw \in ListKeywords(keywords) :
       last' = [op |-> "_effective_keywords",
                arg |-> [yaml_kw |-> yaml_kw, db_kw |-> db_kw],
                ret |-> EffectiveKeywords(yaml_kw, db_kw), wrote |-> FALSE]
  /\ UNCHANGED <<store_vars, config_vars, run_vars, ghost_vars, side_vars>>

NextKeywords ==
  \/ ApiAddKeyword
  \/ ApiRemoveKeyword
  \/ ApiListKeywords
  \/ ApiEffectiveKeywords

SpecKeywords == InitStore /\ [][NextKeywords]_vars

\* ------------------------------------------------------------------ claims
\* The ids of the rows get_unnotified_jobs returns.
UnnotifiedIds(tbl) == {r.id : r \in UnnotifiedRows(tbl)}

\* The current run has called both notifiers with a non-empty unnotified list.
Dispatched == unnotified # <<>> /\ pc \notin {"scrape", "email", "telegram"}

\* The last run_once call returned.
Returned == pc = "idle" /\ result = "returned"

\* C1: each listing identity is delivered on a notification channel at most
\* once, over all runs: no <<channel, id>> is ever delivered a second time.
C1_AtMostOnceDelivery == redelivered = {}

\* C2: whatever store operations are interleaved, one row per identity exists,
\* a row's score and discovery timestamp never change once written, and a
\* save_job step leaves every existing row exactly as it was (the first
\* successful save wins, later saves overwrite nothing).
C2_FirstSaveWins ==
  [][/\ \A r \in jobs' : Cardinality({x \in jobs' : x.id = r.id}) = 1
     /\ \A r \in jobs : \E x \in jobs' :
          /\ x.id = r.id
          /\ x.score = r.score
          /\ x.discovered = r.discovered
          /\ (last'.op = "save_job" => x = r)]_vars

\* C2 witness: a save of an identity that already has a notified row, in another
\* spelling and with another score, returned and left the row as it was.
C2_Witness ==
  /\ last.op = "save_job"
  /\ last.ret
  /\ ~last.wrote
  /\ \E r \in jobs :
       /\ r.id = JobId(last.arg)
       /\ r.score # last.arg.score
       /\ r.title # last.arg.title
       /\ r.notified

\* C3: in every step the notified flag of a listing stays true once true, a
\* listing that was notified is not among the unnotified listings afterwards
\* (also when it is saved again), and mark_notified on identities that are all
\* notified already changes nothing.
C3_NotifiedMonotone ==
  [][/\ NotifiedIds(jobs) \subseteq NotifiedIds(jobs')
     /\ NotifiedIds(jobs) \cap UnnotifiedIds(jobs') = {}
     /\ (/\ last'.op = "mark_notified"
         /\ (IdsOf(last'.arg) \cap Ids(jobs)) \subseteq NotifiedIds(jobs))
        => jobs' = jobs]_vars

\* C3 witness: mark_notified was called again on a listing that is notified.
C3_Witness ==
  /\ last.op = "mark_notified"
  /\ last.arg # <<>>
  /\ IdsOf(last.arg) \subseteq NotifiedIds(jobs)
  /\ ~last.wrote

\* C4: in and after a dry run the set of notified listings is the one the run
\* started with: no listing gained notified = 1, and every row discovered by
\* the run is unnotified.
C4_DryRunMarksNothing ==
  dry_run =>
    /\ NotifiedIds(jobs) = notified_at_start
    /\ \A r \in jobs : r.id \notin notified_at_start => ~r.notified

\* C4 witness: a dry run returned whose dispatch reported success, with a
\* non-empty unnotified list and a listing discovered by the run.
C4_Witness ==
  /\ Returned
  /\ dry_run
  /\ ok
  /\ unnotified # <<>>
  /\ inserted > 0
  /\ IdsOf(unnotified) \subseteq UnnotifiedIds(jobs)

\* C5: a dry run delivers nothing on any channel, and its dispatch reports
\* success.
C5_DryRunDeliversNothing ==
  dry_run =>
    /\ run_sent = {}
    /\ (Dispatched => ok)

\* C6: when the dispatch of a run reported failure, the run marks nothing: the
\* notified listings are those of the run's start and every dispatched listing
\* is still unnotified.
C6_FailedDispatchMarksNothing ==
  (Dispatched /\ ~ok) =>
    /\ NotifiedIds(jobs) = notified_at_start
    /\ IdsOf(unnotified) \subseteq UnnotifiedIds(jobs)

\* C6 witness: a run that is not dry returned after its dispatch reported
\* failure on a non-empty unnotified list.
C6_Witness ==
  /\ Returned
  /\ ~dry_run
  /\ ~ok
  /\ unnotified # <<>>

\* C7: save_job returns true exactly when it wrote a new row.
C7_SaveReturnsWhetherWritten ==
  last.op = "save_job" => (last.ret <=> last.wrote)

\* C8: the count run_once returns and writes to its run_log row is the number
\* of rows the run inserted.
C8_NewCountIsInserted ==
  Returned =>
    /\ new_count = inserted
    /\ run_log[run_id].new_jobs = inserted

\* C9: once a run has ended no run_log row is left 'running' or without an end
\* timestamp, and a run that an exception ended has status 'error'.
C9_RunRecordClosedOnError ==
  pc = "idle" =>
    /\ \A i \in 1..Len(run_log) :
         run_log[i].status # "running" /\ run_log[i].finished_at # -1
    /\ (result \in {"store_error", "write_error", "export_error", "adapter_error",
                    "interrupted"}
        /\ run_id > 0)
         => run_log[run_id].status = "error"

\* C10: a run in which every safe_search call gave nothing, in which no store
\* or export call raised and which was not interrupted, has returned: its run_log row is closed with an
\* end timestamp and status 'ok', the count is 0 and no row was inserted.
C10_AllAdaptersFailRunCompletes ==
  (/\ pc = "idle"
   /\ run_id > 0
   /\ all_failed
   /\ result \notin {"none", "store_error", "write_error", "export_error", "interrupted"})
  => /\ result = "returned"
     /\ run_log[run_id].status = "ok"
     /\ run_log[run_id].finished_at # -1
     /\ run_log[run_id].new_jobs = 0
     /\ new_count = 0
     /\ inserted = 0

\* C10 witness: a run whose searches all gave nothing returned, having gone
\* through the notify step with a backlog of an earlier run.
C10_Witness ==
  /\ Returned
  /\ all_failed
  /\ run_id > 1
  /\ unnotified # <<>>

\* C11: a failure of a write of the store (start_run, save_job, mark_notified,
\* finish_run) stays inside the store: no run_once call is ended by an
\* exception of a write.
C11_WriteFailuresContained == result # "write_error"

\* The letters of the model that are one letter in two cases.
CaseClasses == {{"t", "T"}, {"u", "U"}, {"c", "C"}, {"v", "V"}}

\* c and d are the same character up to letter case.
SameLetter(c, d) == c = d \/ \E K \in CaseClasses : c \in K /\ d \in K

\* s without its leading and trailing whitespace.
Trimmed(s) ==
  LET I == {i \in 1..Len(s) : s[i] # " "}
  IN IF I = {} THEN <<>>
     ELSE SubSeq(s, CHOOSE i \in I : \A k \in I : i <= k,
                    CHOOSE j \in I : \A k \in I : k <= j)

\* f and g are the same field value up to letter case and surrounding whitespace.
SameField(f, g) ==
  /\ Len(Trimmed(f)) = Len(Trimmed(g))
  /\ \A i \in 1..Len(Trimmed(f)) : SameLetter(Trimmed(f)[i], Trimmed(g)[i])

\* The fields in which the triples a and b differ after normalisation.
DifferingFields(a, b) ==
  {f \in {"url", "title", "company"} : ~SameField(a[f], b[f])}

\* C12: two triples have the same identity exactly when their case-folded,
\* whitespace-trimmed fields are pairwise the same: triples that differ in a
\* normalised field never get one pre-hash string.
C12_IdentityIffSameFields ==
  last.op = "_canonical_id" =>
    (last.ret[1] = last.ret[2] <=> DifferingFields(last.arg[1], last.arg[2]) = {})

\* C13: the identity does not depend on the letter case or the surrounding
\* whitespace of any field, and two triples that differ in exactly one
\* normalised field have different identities.
C13_IdentityInvariantAndSensitive ==
  last.op = "_canonical_id" =>
    /\ DifferingFields(last.arg[1], last.arg[2]) = {} => last.ret[1] = last.ret[2]
    /\ Cardinality(DifferingFields(last.arg[1], last.arg[2])) = 1
         => last.ret[1] # last.ret[2]

\* C13 witness: two triples spelled differently in title and company (letter
\* case, leading and trailing whitespace) whose urls differ after
\* normalisation, one of them being a colon: the identities differ.
C13_Witness ==
  /\ last.op = "_canonical_id"
  /\ last.arg[1].url = <<":">>
  /\ last.arg[2].url = <<>>
  /\ last.arg[1].title = <<" ", "u">> /\ last.arg[2].title = <<"U">>
  /\ last.arg[1].company = <<"u", " ">> /\ last.arg[2].company = <<"U">>
  /\ last.ret[1] # last.ret[2]

RowsOf(tbl, job) == {r \in tbl : r.id = JobId(job)}

\* C15: when two callers found the same identity new, one of them while the
\* other was between its is_new and its save_job, and both have called
\* save_job, the identity has exactly one row (given that a save went
\* through), and never more than one.
C15_RacingSavesOneRow ==
  \A v \in Workers : \A w \in Workers \ {v} :
    (/\ race[v].pc = "done" /\ race[w].pc = "done"
     /\ race[v].fresh /\ race[w].fresh
     /\ race[w].raced
     /\ JobId(race[v].job) = JobId(race[w].job))
    => /\ Cardinality(RowsOf(jobs, race[v].job)) <= 1
       /\ ~(race[v].failed /\ race[w].failed)
            => Cardinality(RowsOf(jobs, race[v].job)) = 1

\* C15 witness: both callers found one identity new before either saved, in
\* two spellings, both saves went through, and one row exists.
C15_Witness ==
  /\ \A w \in Workers : race[w].pc = "done" /\ race[w].fresh /\ ~race[w].failed
  /\ \E w \in Workers : race[w].raced
  /\ race[1].job # race[2].job
  /\ JobId(race[1].job) = JobId(race[2].job)
  /\ Cardinality(RowsOf(jobs, race[1].job)) = 1

\* C16: at most one run_once call is in progress; a run starts only in the
\* step that processes a due fire time, and only with no run in progress; a
\* fire time processed during a run is skipped; and the step in which a run
\* ends starts none.
C16_OneRunTicksSkipped ==
  [][/\ Len(sched'.runs) <= 1
     /\ Len(sched'.runs) > Len(sched.runs)
          => (sched.due /\ ~sched'.due /\ sched.runs = <<>>)
     /\ (sched.due /\ ~sched'.due /\ sched.runs # <<>>)
          => (sched'.runs = sched.runs /\ sched'.skipped = sched.skipped + 1)
     /\ Len(sched'.runs) < Len(sched.runs)
          => (sched'.runs = <<>> /\ sched'.started = sched.started)]_vars

\* C16 witness: a fire time arrived during the first run and was skipped; the
\* run has ended and no second run was started.
C16_Witness ==
  /\ sched.state = "running"
  /\ sched.started = 1
  /\ sched.skipped = 1
  /\ sched.runs = <<>>
  /\ ~sched.due

\* C17: once cleanup() has been called on a stop, no run_once call is in its
\* scrape loop: the adapters are released only after the run in progress is
\* through with them.
C17_CleanupAfterRun ==
  sched.cleaned => \A i \in 1..Len(sched.runs) : sched.runs[i] # "scrape"


\* C18: a run whose search() call does not return is not stuck: the call is
\* timed out and the run can take its next step (a step of its own, not the
\* operator's Ctrl+C).
C18_HungSearchTimedOut == pc = "hung" => ENABLED (Next /\ result' # "interrupted")

\* The pass whose jobs run_once is working through.
CurrentPass == triples[triple - 1]

\* C19: no run is ended by an exception of an adapter (safe_search does not
\* raise, and after a raising search() the run goes on), and every job
\* safe_search returned carries the adapter's SOURCE_NAME and the score of
\* the job for the keyword of the pass.
C19_SafeSearchContainsAndTags ==
  /\ result # "adapter_error"
  /\ (pc = "scrape" /\ pending # <<>>) =>
       \A i \in 1..Len(pending) :
         /\ pending[i].source = CurrentPass.scraper
         /\ pending[i].score = Score(pending[i], CurrentPass.keyword)

\* C19 witness: the second pass of a run returned two jobs with a positive
\* score after the first pass gave nothing.
C19_Witness ==
  /\ pc = "scrape"
  /\ triple = 3
  /\ Len(pending) = 2
  /\ DOMAIN tally = {}
  /\ \A i \in 1..Len(pending) : pending[i].score > 0 /\ pending[i].source = "indeed"

\* C20: whatever the listing, the keyword and the tag list, the relevance
\* score is at least 0 and at most 100.
C20_ScoreInRange ==
  last.op = "_score" => (0 <= last.ret /\ last.ret <= 100)

\* C20 witness: the signals of a listing add up to more than 100 (the keyword
\* phrase, its two tokens and six tags in the title) and its score is 100.
C20_Witness ==
  /\ last.op = "_score"
  /\ ScoreSum(last.arg.job, last.arg.keyword, last.arg.tags) > 100
  /\ last.ret = 100

\* needle occurs in hay, letter case aside.
OccursIn(needle, hay) ==
  \E i \in 1..(Len(hay) - Len(needle) + 1) :
    \A k \in 1..Len(needle) : SameLetter(hay[i + k - 1], needle[k])

\* The whitespace-separated tokens of s, as <<first, last>> positions: the
\* maximal runs without whitespace.
TokenSpans(s) ==
  {sp \in (1..Len(s)) \X (1..Len(s)) :
     /\ sp[1] <= sp[2]
     /\ \A k \in sp[1]..sp[2] : s[k] # " "
     /\ (sp[1] = 1 \/ s[sp[1] - 1] = " ")
     /\ (sp[2] = Len(s) \/ s[sp[2] + 1] = " ")}

\* The score as the documentation of _score words it: 40 for the whole
\* keyword, 5 for each token, 10 or else 3 for each tag, at most 100.
DocumentedScore(job, keyword, tags) ==
  LET hay == job.title \o <<" ">> \o job.company
      sum == (IF OccursIn(keyword, hay) THEN 40 ELSE 0)
             + 5 * Cardinality({sp \in TokenSpans(keyword) :
                                  OccursIn(SubSeq(keyword, sp[1], sp[2]), hay)})
             + 10 * Cardinality({i \in 1..Len(tags) : OccursIn(tags[i], hay)})
             + 3 * Cardinality({i \in 1..Len(tags) :
                                  /\ ~OccursIn(tags[i], hay)
                                  /\ OccursIn(tags[i], job.description)})
  IN IF sum > 100 THEN 100 ELSE sum

\* C21: the score _score returns is min(100, 40 for the whole keyword in
\* title + " " + company, + 5 per keyword token in it, + per tag 10 if in it,
\* else 3 if in the description), letter case aside; and a listing whose title
\* contains a keyword of one word scores at least 45.
C21_ScoreFormula ==
  last.op = "_score" =>
    /\ last.ret = DocumentedScore(last.arg.job, last.arg.keyword, last.arg.tags)
    /\ (/\ Cardinality(TokenSpans(last.arg.keyword)) = 1
        /\ \A k \in 1..Len(last.arg.keyword) : last.arg.keyword[k] # " "
        /\ OccursIn(last.arg.keyword, last.arg.job.title))
       => last.ret >= 45

\* C21 witness: a keyword of one word in the title (in the other letter case),
\* a tag in the description only and a tag in the company: 40 + 5 + 3 + 10.
C21_Witness ==
  /\ last.op = "_score"
  /\ last.arg.job = RawA2
  /\ last.arg.keyword = <<"t">>
  /\ last.arg.tags = << <<"v">>, <<"C">> >>
  /\ last.ret = 58

\* The keywords given to _effective_keywords, configured and persisted.
GivenKeywords(arg) ==
  {(arg.yaml_kw \o arg.db_kw)[i] : i \in 1..Len(arg.yaml_kw \o arg.db_kw)}

\* C22: the keyword set of a run has one term for every keyword that is not
\* blank, no blank term, only terms that were given, and no two terms that
\* are the same up to letter case and surrounding whitespace.
C22_EffectiveKeywordsCaseInsensitive ==
  last.op = "_effective_keywords" =>
    /\ \A k \in GivenKeywords(last.arg) :
         Trimmed(k) # <<>> => \E e \in last.ret : SameField(e, k)
    /\ \A e \in last.ret :
         Trimmed(e) # <<>> /\ \E k \in GivenKeywords(last.arg) : SameField(e, k)
    /\ \A e \in last.ret : \A f \in last.ret : SameField(e, f) => e = f

\* The positions of keyword k in the list l.
PositionsOf(l, k) == {i \in 1..Len(l) : l[i] = k}

\* C23: an add_keyword(k) that returned true leaves every row there was as
\* it was (a keyword keeps its first add time, by which list_keywords
\* orders), adds at most the row of trim(k), and list_keywords has trim(k)
\* exactly once afterwards; a remove_keyword of a keyword that is not stored
\* changes nothing.
C23_KeywordOpsIdempotent ==
  [][/\ (last'.op = "add_keyword" /\ last'.ret) =>
          /\ keywords \subseteq keywords'
          /\ \A r \in keywords' \ keywords : r.keyword = Trimmed(last'.arg)
          /\ \A l \in ListKeywords(keywords') :
               Cardinality(PositionsOf(l, Trimmed(last'.arg))) = 1
     /\ (/\ last'.op = "remove_keyword"
         /\ \A r \in keywords : r.keyword # Trimmed(last'.arg))
        => keywords' = keywords]_vars

\* C23 witness: a keyword stored first was added again with trailing
\* whitespace after another keyword had been added: nothing was written, and
\* list_keywords has it once, in first place.
C23_Witness ==
  /\ last.op = "add_keyword"
  /\ last.arg = <<"t", " ">>
  /\ last.ret
  /\ ~last.wrote
  /\ Cardinality(keywords) = 2
  /\ \A l \in ListKeywords(keywords) : PositionsOf(l, <<"t">>) = {1}

\* The run_log rows that a step closes.
ClosedBy(log, log2) ==
  {i \in 1..Len(log) : log[i].status = "running" /\ log2[i].status # "running"}

\* C24: in every step of a run: listings are stored only while scraping, in an
\* open run; the unnotified list is fetched, and anything is delivered, only
\* when no pass and no job of a pass is left; only fetched listings are
\* delivered; listings are marked only after both notifier calls returned,
\* and only fetched ones; and the step that closes the run_log row stores and
\* marks nothing and ends the run.
C24_PhaseOrder ==
  [][/\ Ids(jobs') # Ids(jobs) =>
          pc = "scrape" /\ run_log[run_id].status = "running"
     /\ (unnotified' # unnotified /\ unnotified' # <<>>) =>
          pending = <<>> /\ triple > Len(triples) /\ run_sent = {}
     /\ run_sent' # run_sent /\ run_sent' # {} =>
          /\ pending = <<>> /\ triple > Len(triples)
          /\ {x[2] : x \in run_sent'} \subseteq IdsOf(unnotified)
          /\ NotifiedIds(jobs) = notified_at_start
     /\ NotifiedIds(jobs') # NotifiedIds(jobs) =>
          /\ pc = "mark"
          /\ NotifiedIds(jobs') \ NotifiedIds(jobs) \subseteq IdsOf(unnotified)
          /\ run_log[run_id].status = "running"
     /\ ClosedBy(run_log, run_log') # {} =>
          /\ ClosedBy(run_log, run_log') = {run_id}
          /\ pc = "finish" /\ pc' = "idle"
          /\ jobs' = jobs]_vars

\* C24 witness: a run returned that stored a listing, delivered listings,
\* marked them and closed its row.
C24_Witness ==
  /\ Returned
  /\ inserted > 0
  /\ run_sent # {}
  /\ unnotified # <<>>
  /\ IdsOf(unnotified) \subseteq NotifiedIds(jobs)
  /\ NotifiedIds(jobs) # notified_at_start
  /\ run_log[run_id].status = "ok"

\* The rows an earlier run stored and left unnotified.
Backlog == {r \in jobs : r.discovered < clock /\ ~r.notified}

\* C25: every listing that earlier runs left unnotified is in the list the
\* current run dispatches; and once a run that is not dry and whose dispatch
\* reported success is past its mark step, no listing of an earlier run is
\* unnotified, whatever the run discovered.
C25_BacklogRedispatched ==
  /\ pc \in {"email", "telegram", "mark"} =>
       {r.id : r \in Backlog} \subseteq IdsOf(unnotified)
  /\ (/\ pc \in {"export", "finish"} \/ Returned
      /\ ~dry_run
      /\ ok
      /\ unnotified # <<>>)
     => Backlog = {}

\* C25 witness: the second run, not dry, discovered nothing, dispatched the
\* listings the first run had left unnotified, and they are marked.
C25_Witness ==
  /\ Returned
  /\ run_id = 2
  /\ ~dry_run
  /\ ok
  /\ new_count = 0
  /\ inserted = 0
  /\ notified_at_start = {}
  /\ unnotified # <<>>
  /\ \A i \in 1..Len(unnotified) : unnotified[i].discovered < clock
  /\ IdsOf(unnotified) = NotifiedIds(jobs)

\* The listings the current run has marked.
MarkedByRun == NotifiedIds(jobs) \ notified_at_start

\* C26: a run marks nothing before its mark step, and past it the listings it
\* has marked are all the listings it dispatched if that list is not empty,
\* the run is not dry and email.send reported success, and none otherwise;
\* what Telegram delivered has no part in it.
C26_MarkedExactlyWhen ==
  /\ pc \in {"scrape", "email", "telegram", "mark"} => MarkedByRun = {}
  /\ (pc \in {"export", "finish"} \/ Returned) =>
       MarkedByRun = (IF unnotified # <<>> /\ ~dry_run /\ ok
                      THEN IdsOf(unnotified) ELSE {})

\* C26 witness: a run marked the two listings it dispatched although Telegram,
\* enabled and configured, delivered none of them.
C26_Witness ==
  /\ Returned
  /\ telegram_enabled /\ telegram_creds
  /\ Len(unnotified) = 2
  /\ \A x \in run_sent : x[1] = "email"
  /\ MarkedByRun = IdsOf(unnotified)

\* C27: a mark_notified(listings) step leaves the set of stored identities as
\* it was (no row is created or removed), gives notified = 1 to every row
\* whose identity is among the given ones, and changes no other row and no
\* other field.
C27_MarkNotifiedFrame ==
  [][last'.op = "mark_notified" =>
       /\ Ids(jobs') = Ids(jobs)
       /\ Cardinality(jobs') = Cardinality(jobs)
       /\ \A r \in jobs :
            IF r.id \in IdsOf(last'.arg)
            THEN [r EXCEPT !.notified = TRUE] \in jobs'
            ELSE r \in jobs']_vars

\* C27 witness: mark_notified was given a stored, unnotified listing (in
\* another spelling than the stored one) and a listing that is not stored: the
\* stored row is marked and is still the only row.
C27_Witness ==
  /\ last.op = "mark_notified"
  /\ last.wrote
  /\ \E i \in 1..Len(last.arg) : JobId(last.arg[i]) \notin Ids(jobs)
  /\ \E i \in 1..Len(last.arg) : \E r \in jobs :
       r.id = JobId(last.arg[i]) /\ r.notified /\ r.title # last.arg[i].title
  /\ Cardinality(jobs) = 1

\* C28: the list get_unnotified_jobs returns holds every stored row with
\* notified = 0 and no other row, each once, a row discovered later before a
\* row discovered earlier.
C28_UnnotifiedNewestFirst ==
  last.op = "get_unnotified_jobs" =>
    /\ {last.ret[i] : i \in 1..Len(last.ret)} = {r \in jobs : ~r.notified}
    /\ \A i \in 1..Len(last.ret) : \A j \in 1..Len(last.ret) :
         /\ i # j => last.ret[i] # last.ret[j]
         /\ i < j => last.ret[i].discovered >= last.ret[j].discovered

\* C28 witness: two unnotified rows were returned, the one stored half a
\* second after the other first (its timestamp text has a fraction, the
\* other's has none).
C28_Witness ==
  /\ last.op = "get_unnotified_jobs"
  /\ Len(last.ret) = 2
  /\ last.ret[1].discovered = 1
  /\ last.ret[2].discovered = 0

\* C29: a stop signal ends a run only between two passes (no job of a pass is
\* left to work through and no search() call is in progress), and the run's
\* run_log row is closed then: it has an end timestamp and a status other
\* than 'running'.
C29_StopBetweenTriplesRecordClosed ==
  [][(result' = "interrupted" /\ pc # "idle") =>
       /\ pc = "scrape"
       /\ pending = <<>>
       /\ run_log'[run_id].finished_at # -1
       /\ run_log'[run_id].status # "running"]_vars

\* C30: the list safe_search returns for a pass is empty, or it is the list
\* search() produced with every job tagged with the adapter's name and scored
\* for the keyword; and when _score raises on a job of the pass the list is
\* empty and the pass stores nothing.
C30_SafeSearchAllOrNothing ==
  last.op = "pass" =>
    /\ \/ last.ret = <<>>
       \/ /\ Len(last.ret) = Len(last.arg.raw)
          /\ \A i \in 1..Len(last.ret) :
               last.ret[i] = [last.arg.raw[i] EXCEPT
                                !.source = ConfigScrapers[1],
                                !.score = Score(last.arg.raw[i], ConfigKeywords[3])]
    /\ (\E i \in 1..Len(last.arg.raw) : ScoreRaises(last.arg.raw[i]))
         => (last.ret = <<>> /\ ~last.wrote)

\* C30 witness: search() returned a posting that is not stored followed by
\* one _score raises on: the pass got the empty list and the first posting is
\* still not stored, next to a row of an earlier pass.
C30_Witness ==
  /\ last.op = "pass"
  /\ ~last.arg.raises
  /\ last.arg.raw = <<RawB, RawNone>>
  /\ last.ret = <<>>
  /\ jobs # {}
  /\ JobId(RawB) \notin Ids(jobs)

====
